---------------------------- MODULE Spec2Model ----------------------------
(***************************************************************************)
(* A model of the reminder bot (src/src/bot.py): the text pipeline         *)
(* (completion call, fallback, response splitting), the calendar context,  *)
(* the chat listener with its three handlers, and the health responder.    *)
(*                                                                         *)
(* Texts are sequences of one-character strings.                           *)
(***************************************************************************)
EXTENDS Integers, Sequences, FiniteSets, TLC

VARIABLES
    \* ---- parse_and_polish_message applied to drawn inputs (SpecPolish)
    user_message,   \* the raw user text handed to parse_and_polish_message
    response,       \* what the completion service answered
    reminders,      \* the returned list; <<>> before the call
    ppc             \* "input" | "returned"

polishVars == <<user_message, response, reminders, ppc>>

VARIABLES
    \* ---- get_calendar_context applied to a drawn clock reading (SpecCal)
    now,            \* the date datetime.now() reads, [year, month, day]
    calendar_text,  \* the text block returned, as its parts
    cpc             \* "input" | "built"

calVars == <<now, calendar_text, cpc>>

VARIABLES
    \* ---- the running process (Spec)
    lpc,               \* where the chat listener is
    update_queue,      \* inbound updates not yet handled, oldest first
    update,            \* the update being handled
    idx,               \* handle_message's position in its loop over reminders
    outbox,            \* the messages the bot has sent, oldest first
    deleted,           \* the ids of the messages deleted so far
    trace,             \* the calls made on the two services, oldest first
    log,               \* the lines written with logger.error / by the dispatcher
    delivered,         \* how many updates the platform has delivered
    health_state,      \* "off" | "serving"
    health_waiting,    \* GET /health requests received and not answered yet
    health_responses,  \* the answers given, oldest first
    health_during      \* the handler that was running at each answer (history)

listenerVars == <<lpc, update_queue, update, idx, outbox, deleted, trace, log, delivered>>
healthVars == <<health_state, health_waiting, health_responses, health_during>>
botVars == <<listenerVars, healthVars>>

vars == <<polishVars, calVars, botVars>>

(***************************************************************************)
(* Bounds                                                                  *)
(***************************************************************************)
\* Longest completion text / user text, counted in tokens (see Tokens).
MaxTok == 5

\* The clock readings drawn: every day of CalFirstYear .. CalFirstYear + CalYears.
CalFirstYear == 2023
CalYears == 1

\* Updates the platform delivers in one run.
MaxUpdates == 3
\* GET /health requests received in one run.
MaxHealthRequests == 1

(***************************************************************************)
(* Texts                                                                   *)
(***************************************************************************)
\* The separator the prompt asks for and line 118 splits on.
Sep == <<"-", "-", "-">>

\* Building blocks of the drawn texts: letters, a blank, a lone dash and the
\* whole separator, so that texts with two separators stay within MaxTok.
Tokens == { <<"a">>, <<"b">>, <<" ">>, <<"-">>, Sep }

RECURSIVE Flatten(_)
Flatten(ts) == IF ts = <<>> THEN <<>> ELSE Head(ts) \o Flatten(Tail(ts))

TextsUpTo(n) == { Flatten(ts) : ts \in UNION { [1..k -> Tokens] : k \in 0..n } }

\* str.isspace() for one character, as str.strip() with no argument uses it.
IsSpace(c) == c \in {" ", "\n", "\t", "\r"}

\* str.lstrip(): drop leading whitespace, one character at a time.
RECURSIVE LStrip(_)
LStrip(s) ==
    IF s = <<>> THEN <<>>
    ELSE IF IsSpace(Head(s)) THEN LStrip(Tail(s))
    ELSE s

\* str.rstrip(): drop trailing whitespace.
RECURSIVE RStrip(_)
RStrip(s) ==
    IF s = <<>> THEN <<>>
    ELSE IF IsSpace(s[Len(s)]) THEN RStrip(SubSeq(s, 1, Len(s) - 1))
    ELSE s

\* str.strip()
Strip(s) == RStrip(LStrip(s))

\* Does sep occur in s at position i ?
MatchAt(s, i, sep) ==
    /\ i + Len(sep) - 1 <= Len(s)
    /\ \A k \in 1..Len(sep) : s[i + k - 1] = sep[k]

\* str.split(sep): scan left to right from position j; the piece under
\* construction starts at position i.  Each leftmost occurrence of sep closes
\* the piece and the scan resumes after it; the rest of the text is the last
\* piece (present even when empty).
RECURSIVE SplitFrom(_, _, _, _)
SplitFrom(s, i, j, sep) ==
    IF j > Len(s) THEN << SubSeq(s, i, Len(s)) >>
    ELSE IF MatchAt(s, j, sep)
         THEN << SubSeq(s, i, j - 1) >> \o SplitFrom(s, j + Len(sep), j + Len(sep), sep)
         ELSE SplitFrom(s, i, j + 1, sep)

Split(s, sep) == SplitFrom(s, 1, 1, sep)

\* As StripNonEmpty, but the pieces kept are not stripped.
RECURSIVE KeepNonEmptyUnstripped(_)
KeepNonEmptyUnstripped(pieces) ==
    IF pieces = <<>> THEN <<>>
    ELSE IF Strip(Head(pieces)) # <<>>
         THEN << Head(pieces) >> \o KeepNonEmptyUnstripped(Tail(pieces))
         ELSE KeepNonEmptyUnstripped(Tail(pieces))

\* [reminder.strip() for reminder in pieces if reminder.strip()]
RECURSIVE StripNonEmpty(_)
StripNonEmpty(pieces) ==
    IF pieces = <<>> THEN <<>>
    ELSE IF Strip(Head(pieces)) # <<>>
         THEN << Strip(Head(pieces)) >> \o StripNonEmpty(Tail(pieces))
         ELSE StripNonEmpty(Tail(pieces))

\* Lines 115-118: strip the blob, split it on "---", strip and filter.
SplitReminders(content) == StripNonEmpty(Split(Strip(content), Sep))

(***************************************************************************)
(* The completion service's answers                                        *)
(***************************************************************************)
\* Python's None, as a value no text equals.
None == << "None" >>

\* create() raises (network error, quota, ...).
RaisedResponse == [raised |-> TRUE, choices |-> <<>>]
\* A response without choices: response.choices[0] raises IndexError.
NoChoicesResponse == [raised |-> FALSE, choices |-> <<>>]
\* A response whose message has no content: None.strip() raises AttributeError.
NullContentResponse == [raised |-> FALSE, choices |-> << [content |-> None] >>]
ContentResponse(c) == [raised |-> FALSE, choices |-> << [content |-> c] >>]

FailedResponses == {RaisedResponse, NoChoicesResponse, NullContentResponse}

\* Does the try block of lines 104-120 raise on this answer ?
TryRaises(r) ==
    \/ r.raised
    \/ r.choices = <<>>
    \/ r.choices[1].content = None

\* As ParseAndPolish, but an empty list of reminders falls back too.
PolishFallbackWhenEmpty(msg, r) ==
    IF TryRaises(r) \/ SplitReminders(r.choices[1].content) = <<>> THEN << msg >>
    ELSE SplitReminders(r.choices[1].content)

\* As ParseAndPolish, but the fallback strips the user text.
PolishFallbackTrimmed(msg, r) ==
    IF TryRaises(r) THEN << Strip(msg) >>
    ELSE SplitReminders(r.choices[1].content)

\* Lines 104-125: the value parse_and_polish_message returns.
ParseAndPolish(msg, r) ==
    IF TryRaises(r) THEN << msg >>
    ELSE SplitReminders(r.choices[1].content)

(***************************************************************************)
(* Dates, as datetime computes them                                        *)
(***************************************************************************)
DaysPerWeek == 7

IsLeap(y) == (y % 4 = 0) /\ ((y % 100 # 0) \/ (y % 400 = 0))

DaysInMonth(y, m) ==
    IF m = 2 THEN (IF IsLeap(y) THEN 29 ELSE 28)
    ELSE IF m \in {4, 6, 9, 11} THEN 30 ELSE 31

\* Days before January 1st of year y.
DaysBeforeYear(y) ==
    (y - 1) * 365 + ((y - 1) \div 4) - ((y - 1) \div 100) + ((y - 1) \div 400)

RECURSIVE DaysBeforeMonth(_, _)
DaysBeforeMonth(y, m) ==
    IF m = 1 THEN 0 ELSE DaysBeforeMonth(y, m - 1) + DaysInMonth(y, m - 1)

\* date.toordinal(): January 1st of year 1 is day 1.
ToOrdinal(d) == DaysBeforeYear(d.year) + DaysBeforeMonth(d.year, d.month) + d.day

\* date.fromordinal()
FromOrdinal(n) ==
    LET y == CHOOSE yy \in (n \div 366)..(n \div 365 + 1) :
                 DaysBeforeYear(yy) < n /\ n <= DaysBeforeYear(yy + 1)
        r == n - DaysBeforeYear(y)
        m == CHOOSE mm \in 1..12 :
                 DaysBeforeMonth(y, mm) < r /\ r <= DaysBeforeMonth(y, mm) + DaysInMonth(y, mm)
    IN  [year |-> y, month |-> m, day |-> r - DaysBeforeMonth(y, m)]

\* date.weekday(): Monday is 0, Sunday is 6.
Weekday(d) == (ToOrdinal(d) + 6) % 7

\* d + timedelta(days=k), d - timedelta(days=k) with k negative.
PlusDays(d, k) == FromOrdinal(ToOrdinal(d) + k)

DayNames ==
    << "Monday", "Tuesday", "Wednesday", "Thursday", "Friday", "Saturday", "Sunday" >>

MonthNames ==
    << "January", "February", "March", "April", "May", "June", "July",
       "August", "September", "October", "November", "December" >>

\* strftime('%A')
FormatA(d) == DayNames[Weekday(d) + 1]

\* strftime('%B %d, %Y'): month name, the day as two digits, the year.
FormatBdY(d) ==
    [month |-> MonthNames[d.month],
     dd    |-> << d.day \div 10, d.day % 10 >>,
     year  |-> d.year]

(***************************************************************************)
(* get_calendar_context                                                    *)
(***************************************************************************)
\* As CurrentWeekStart, but with weeks that start on Sunday.
WeekStartSunday(today) == PlusDays(today, 0 - ((Weekday(today) + 1) % 7))

\* Line 33: today - timedelta(days=today.weekday())

CurrentWeekStart(today) == PlusDays(today, 0 - Weekday(today))

\* Lines 45-47, 51-53, 57-59: for i in range(7), one line per day.
WeekLines(start) ==
    [ i \in 1..DaysPerWeek |->
        [name |-> FormatA(PlusDays(start, i - 1)),
         date |-> FormatBdY(PlusDays(start, i - 1))] ]

\* Lines 30-61
GetCalendarContext(today) ==
    LET current_week_start == CurrentWeekStart(today)
        prev_week_start == PlusDays(current_week_start, 0 - DaysPerWeek)
        next_week_start == PlusDays(current_week_start, DaysPerWeek)
    IN  [current |-> [name |-> FormatA(today), date |-> FormatBdY(today)],
         weeks   |-> << [title |-> "Previous week", days |-> WeekLines(prev_week_start)],
                        [title |-> "Current week",  days |-> WeekLines(current_week_start)],
                        [title |-> "Next week",     days |-> WeekLines(next_week_start)] >>]

(***************************************************************************)
(* The chat platform's objects                                             *)
(***************************************************************************)
Chats == {1, 2}

NoUpdate ==
    [kind |-> "none", serial |-> 0, chat_id |-> 0, message_id |-> <<"in", 0>>,
     text |-> <<>>, command |-> "", data |-> ""]

\* A message of a user; command names the bot command the text starts with.
MessageUpdate(n, c, t, cmd) ==
    [kind |-> "message", serial |-> n, chat_id |-> c, message_id |-> <<"in", n>>,
     text |-> t, command |-> cmd, data |-> ""]

\* A press of the button carrying data d on the k-th message the bot sent.
CallbackUpdate(n, c, k, d) ==
    [kind |-> "callback_query", serial |-> n, chat_id |-> c, message_id |-> <<"out", k>>,
     text |-> <<>>, command |-> "", data |-> d]

\* As DoneCancelKeyboard, without the second button.
DoneOnlyKeyboard ==
    << << [text |-> "Done", callback_data |-> "done"] >> >>

\* Lines 156-162: one row, two buttons.
DoneCancelKeyboard ==
    << << [text |-> "Done", callback_data |-> "done"],
          [text |-> "Cancel", callback_data |-> "cancel"] >> >>

NoKeyboard == <<>>

\* Lines 131-134: the text start_command replies with.
UsageText == << "Welcome to Reminder Bot!" >>

\* The texts the three logger.error calls write (lines 123, 148, 181) and the
\* dispatcher's line for an exception no handler caught.
ErrParsing == << "Error parsing message with OpenAI" >>
ErrDeleting == << "Error deleting message" >>
ErrDeletingAfterPress == << "Error deleting message after button press" >>
ErrUnhandled == << "No error handlers are registered, logging exception" >>

ErrorTexts == {ErrParsing, ErrDeleting, ErrDeletingAfterPress, ErrUnhandled}

\* The user text drawn in Spec: a leading blank and a separator, so that the
\* text itself, its stripped form and its pieces all differ.
UserTexts == { <<" ", "a", "-", "-", "-", "b">> }

\* What the completion service answers in Spec.
CompletionContents ==
    { <<>>,
      <<" ", "-", "-", "-", "\n">>,
      <<"a", "\n", "-", "-", "-", " ", "b">> }

CompletionResponses ==
    FailedResponses \cup { ContentResponse(c) : c \in CompletionContents }

NoResponse == [raised |-> FALSE, choices |-> <<>>, none |-> TRUE]

\* One call on the chat platform or the completion service.
Op(u, name, target, ok, items) ==
    [ev |-> u.serial, op |-> name, target |-> target, ok |-> ok, items |-> items]

LogLine(u, line) == [ev |-> u.serial, line |-> line]

(***************************************************************************)
(* The states of the parts a specification does not run                    *)
(***************************************************************************)
PolishIdle ==
    /\ user_message = <<>>
    /\ response = NoResponse
    /\ reminders = <<>>
    /\ ppc = "off"

NoCalendar == [current |-> <<>>, weeks |-> <<>>]

CalIdle ==
    /\ now = [year |-> CalFirstYear, month |-> 1, day |-> 1]
    /\ calendar_text = NoCalendar
    /\ cpc = "off"

BotIdle ==
    /\ lpc = "off"
    /\ update_queue = <<>>
    /\ update = NoUpdate
    /\ idx = 0
    /\ outbox = <<>>
    /\ deleted = {}
    /\ trace = <<>>
    /\ log = <<>>
    /\ delivered = 0
    /\ health_state = "off"
    /\ health_waiting = 0
    /\ health_responses = <<>>
    /\ health_during = <<>>

(***************************************************************************)
(* SpecCal: get_calendar_context on drawn clock readings                   *)
(***************************************************************************)
ClockReadings ==
    { [year |-> y, month |-> m, day |-> d] :
        y \in CalFirstYear..(CalFirstYear + CalYears), m \in 1..12, d \in 1..31 }

CalInit ==
    /\ now \in { t \in ClockReadings : t.day <= DaysInMonth(t.year, t.month) }
    /\ calendar_text = NoCalendar
    /\ cpc = "input"
    /\ PolishIdle
    /\ BotIdle

CalBuild ==
    /\ cpc = "input"
    /\ calendar_text' = GetCalendarContext(now)
    /\ cpc' = "built"
    /\ UNCHANGED now
    /\ UNCHANGED <<polishVars, botVars>>

CalNext == CalBuild

SpecCal == CalInit /\ [][CalNext]_vars

(***************************************************************************)
(* SpecPolish: parse_and_polish_message on drawn inputs                    *)
(***************************************************************************)
\* Two user texts for the runs in which the service answers.
PlainUserTexts == { <<"a">>, <<" ", "a", "-", "-", "-", "b">> }

PolishInit ==
    /\ \/ /\ user_message \in TextsUpTo(MaxTok)
          /\ response \in FailedResponses
       \/ /\ user_message \in PlainUserTexts
          /\ response \in { ContentResponse(c) : c \in TextsUpTo(MaxTok) }
    /\ reminders = <<>>
    /\ ppc = "input"
    /\ CalIdle
    /\ BotIdle

PolishCall ==
    /\ ppc = "input"
    /\ reminders' = ParseAndPolish(user_message, response)
    /\ ppc' = "returned"
    /\ UNCHANGED <<user_message, response>>
    /\ UNCHANGED <<calVars, botVars>>

PolishNext == PolishCall

SpecPolish == PolishInit /\ [][PolishNext]_vars

(***************************************************************************)
(* Spec: the running process, main() = gather(start_bot, start_health)     *)
(***************************************************************************)
Init ==
    /\ lpc = "boot"
    /\ update_queue = <<>>
    /\ update = NoUpdate
    /\ idx = 0
    /\ outbox = <<>>
    /\ deleted = {}
    /\ trace = <<>>
    /\ log = <<>>
    /\ delivered = 0
    /\ health_state = "off"
    /\ health_waiting = 0
    /\ health_responses = <<>>
    /\ health_during = <<>>
    /\ PolishIdle
    /\ CalIdle

\* The handler's locals are gone once it has returned or raised.
DropLocals ==
    /\ update' = NoUpdate
    /\ user_message' = <<>>
    /\ response' = NoResponse
    /\ reminders' = <<>>
    /\ idx' = 0

KeepLocals == UNCHANGED <<update, user_message, response, reminders, idx>>

\* Lines 204-218: the handlers are registered and polling starts.
StartBot ==
    /\ lpc = "boot"
    /\ lpc' = "idle"
    /\ KeepLocals
    /\ UNCHANGED <<update_queue, outbox, deleted, trace, log, delivered>>
    /\ UNCHANGED <<healthVars, calVars, ppc>>

\* The platform delivers a user's message.  The chats are interchangeable:
\* the one the first message comes from is called 1.
DeliverMessage ==
    /\ delivered < MaxUpdates
    /\ \E c \in (IF delivered = 0 THEN {1} ELSE Chats) :
       \E tc \in {<<t, "">> : t \in UserTexts}
                 \cup { << <<"/", "s">>, "start" >>, << <<"/", "h">>, "help" >> } :
           update_queue' = Append(update_queue, MessageUpdate(delivered + 1, c, tc[1], tc[2]))
    /\ delivered' = delivered + 1
    /\ KeepLocals
    /\ UNCHANGED <<lpc, outbox, deleted, trace, log>>
    /\ UNCHANGED <<healthVars, calVars, ppc>>

\* The platform delivers the press of a button of a message that is still shown.
DeliverCallback ==
    /\ delivered < MaxUpdates
    /\ \E k \in 1..Len(outbox) :
           /\ <<"out", k>> \notin deleted
           /\ outbox[k].reply_markup # NoKeyboard
           /\ \E b \in 1..Len(outbox[k].reply_markup[1]) :
                  update_queue' =
                      Append(update_queue,
                             CallbackUpdate(delivered + 1, outbox[k].chat_id, k,
                                            outbox[k].reply_markup[1][b].callback_data))
    /\ delivered' = delivered + 1
    /\ KeepLocals
    /\ UNCHANGED <<lpc, outbox, deleted, trace, log>>
    /\ UNCHANGED <<healthVars, calVars, ppc>>

\* As Route, but the text handler's filter does not exclude commands.
RouteCommandsAsText(u) ==
    IF u.kind = "message" /\ u.command = "start" THEN "start_command"
    ELSE IF u.kind = "message" THEN "handle_message"
    ELSE IF u.kind = "callback_query" THEN "button_callback"
    ELSE "none"

\* Lines 210-212: the first handler whose filter accepts the update.
Route(u) ==
    IF u.kind = "message" /\ u.command = "start" THEN "start_command"
    ELSE IF u.kind = "message" /\ u.command = "" THEN "handle_message"
    ELSE IF u.kind = "callback_query" THEN "button_callback"
    ELSE "none"

\* As Entry, but button_callback starts at the deletion.
EntryDeleteUnacknowledged(h) ==
    CASE h = "start_command"   -> "sc_reply"
      [] h = "handle_message"  -> "hm_delete"
      [] h = "button_callback" -> "bc_delete"
      [] OTHER                 -> "idle"

\* As Entry, but handle_message starts at the completion call.
EntrySkipDelete(h) ==
    CASE h = "start_command"   -> "sc_reply"
      [] h = "handle_message"  -> "hm_call"
      [] h = "button_callback" -> "bc_answer"
      [] OTHER                 -> "idle"

\* The entry point of each handler.
Entry(h) ==
    CASE h = "start_command"   -> "sc_reply"
      [] h = "handle_message"  -> "hm_delete"
      [] h = "button_callback" -> "bc_answer"
      [] OTHER                 -> "idle"

\* As Dispatch, but without waiting for the handling in progress to end.
DispatchPreempting ==
    /\ lpc # "boot"
    /\ update_queue # <<>>
    /\ LET u == Head(update_queue)
           h == Route(u)
       IN  /\ lpc' = Entry(h)
           /\ update' = IF h = "none" THEN NoUpdate ELSE u
           /\ user_message' = IF h = "handle_message" THEN u.text ELSE <<>>
           /\ trace' = IF h = "none" THEN trace
                       ELSE Append(trace, Op(u, "begin", h, TRUE, <<u>>))
    /\ update_queue' = Tail(update_queue)
    /\ UNCHANGED <<response, reminders, idx, outbox, deleted, log, delivered>>
    /\ UNCHANGED <<healthVars, calVars, ppc>>

\* The dispatcher takes the oldest update once the previous one is done with
\* (the Application is built without concurrent updates, line 207) and enters
\* its handler; handle_message reads its three locals (lines 140-142).  An
\* update no handler accepts is dropped.
Dispatch ==
    /\ lpc = "idle"
    /\ update_queue # <<>>
    /\ LET u == Head(update_queue)
           h == Route(u)
       IN  /\ lpc' = Entry(h)
           /\ update' = IF h = "none" THEN NoUpdate ELSE u
           /\ user_message' = IF h = "handle_message" THEN u.text ELSE <<>>
           /\ trace' = IF h = "none" THEN trace
                       ELSE Append(trace, Op(u, "begin", h, TRUE, <<u>>))
    /\ update_queue' = Tail(update_queue)
    /\ UNCHANGED <<response, reminders, idx, outbox, deleted, log, delivered>>
    /\ UNCHANGED <<healthVars, calVars, ppc>>

\* As EndHandling, but an exception no handler caught stops the listener.
EndHandlingStopsOnError(tr, lg, ok) ==
    /\ trace' = Append(tr, Op(update, "end", "", ok, <<>>))
    /\ log' = IF ok THEN lg ELSE Append(lg, LogLine(update, ErrUnhandled))
    /\ lpc' = IF ok THEN "idle" ELSE "stopped"
    /\ DropLocals

\* The end of a handling: the handler returned (ok) or raised; the dispatcher
\* logs what a handler raised and waits for the next update.
EndHandling(tr, lg, ok) ==
    /\ trace' = Append(tr, Op(update, "end", "", ok, <<>>))
    /\ log' = IF ok THEN lg ELSE Append(lg, LogLine(update, ErrUnhandled))
    /\ lpc' = "idle"
    /\ DropLocals

\* As HandleMessageDelete, but without the try: a failure ends the handling.
HandleMessageDeleteUncaught ==
    /\ lpc = "hm_delete"
    /\ \E ok \in BOOLEAN :
       LET tr == Append(trace, Op(update, "delete", update.message_id, ok, <<>>))
       IN  /\ ok => update.message_id \notin deleted
           /\ deleted' = IF ok THEN deleted \cup {update.message_id} ELSE deleted
           /\ IF ok
              THEN /\ trace' = tr
                   /\ lpc' = "hm_call"
                   /\ KeepLocals
                   /\ UNCHANGED log
              ELSE EndHandling(tr, log, FALSE)
    /\ UNCHANGED <<update_queue, outbox, delivered>>
    /\ UNCHANGED <<healthVars, calVars, ppc>>

\* As HandleMessageDelete, but a failure is reported in the chat.
HandleMessageDeleteTellsUser ==
    /\ lpc = "hm_delete"
    /\ \E ok \in BOOLEAN :
           /\ ok => update.message_id \notin deleted
           /\ trace' = Append(trace, Op(update, "delete", update.message_id, ok, <<>>))
           /\ deleted' = IF ok THEN deleted \cup {update.message_id} ELSE deleted
           /\ log' = IF ok THEN log ELSE Append(log, LogLine(update, ErrDeleting))
           /\ outbox' = IF ok THEN outbox
                        ELSE Append(outbox, [chat_id |-> update.chat_id, text |-> ErrDeleting,
                                             reply_markup |-> NoKeyboard, ev |-> update.serial])
    /\ lpc' = "hm_call"
    /\ KeepLocals
    /\ UNCHANGED <<update_queue, delivered>>
    /\ UNCHANGED <<healthVars, calVars, ppc>>

\* Lines 144-148: the original message is deleted; a failure is logged.
HandleMessageDelete ==
    /\ lpc = "hm_delete"
    /\ \E ok \in BOOLEAN :
           /\ ok => update.message_id \notin deleted
           /\ trace' = Append(trace, Op(update, "delete", update.message_id, ok, <<>>))
           /\ deleted' = IF ok THEN deleted \cup {update.message_id} ELSE deleted
           /\ log' = IF ok THEN log ELSE Append(log, LogLine(update, ErrDeleting))
    /\ lpc' = "hm_call"
    /\ KeepLocals
    /\ UNCHANGED <<update_queue, outbox, delivered>>
    /\ UNCHANGED <<healthVars, calVars, ppc>>

\* Lines 66-113: the prompt is built and the request goes to the completion
\* service; create() is a plain call, the listener's thread stays in it.
CompletionCall ==
    /\ lpc = "hm_call"
    /\ trace' = Append(trace, Op(update, "call", "", TRUE, <<>>))
    /\ lpc' = "hm_wait"
    /\ KeepLocals
    /\ UNCHANGED <<update_queue, outbox, deleted, log, delivered>>
    /\ UNCHANGED <<healthVars, calVars, ppc>>

\* As CompletionReturn, but a failed invocation is tried again.
CompletionReturnRetrying ==
    /\ lpc = "hm_wait"
    /\ \E r \in CompletionResponses :
       LET rs == ParseAndPolish(user_message, r)
           got == IF TryRaises(r) THEN None ELSE r.choices[1].content
           tr == Append(trace, Op(update, "completed", got, ~TryRaises(r), rs))
           lg == IF TryRaises(r) THEN Append(log, LogLine(update, ErrParsing)) ELSE log
       IN  IF TryRaises(r)
           THEN /\ trace' = tr
                /\ log' = lg
                /\ lpc' = "hm_call"
                /\ KeepLocals
           ELSE IF rs = <<>>
           THEN EndHandling(tr, lg, TRUE)
           ELSE /\ response' = NoResponse
                /\ reminders' = rs
                /\ idx' = 1
                /\ trace' = tr
                /\ log' = lg
                /\ lpc' = "hm_send"
                /\ UNCHANGED <<update, user_message>>
    /\ UNCHANGED <<update_queue, outbox, deleted, delivered>>
    /\ UNCHANGED <<healthVars, calVars, ppc>>

\* Lines 115-125 and 151-154: the service answers or create() raises; the
\* reminders are computed (the response is a local of parse_and_polish_message
\* and is gone when it returns); with no reminder the loop body never runs.
CompletionReturn ==
    /\ lpc = "hm_wait"
    /\ \E r \in CompletionResponses :
       LET rs == ParseAndPolish(user_message, r)
           got == IF TryRaises(r) THEN None ELSE r.choices[1].content
           tr == Append(trace, Op(update, "completed", got, ~TryRaises(r), rs))
           lg == IF TryRaises(r) THEN Append(log, LogLine(update, ErrParsing)) ELSE log
       IN  IF rs = <<>>
           THEN EndHandling(tr, lg, TRUE)
           ELSE /\ response' = NoResponse
                /\ reminders' = rs
                /\ idx' = 1
                /\ trace' = tr
                /\ log' = lg
                /\ lpc' = "hm_send"
                /\ UNCHANGED <<update, user_message>>
    /\ UNCHANGED <<update_queue, outbox, deleted, delivered>>
    /\ UNCHANGED <<healthVars, calVars, ppc>>

\* The message send_message / reply_text delivers.
Outbound(u, text, markup) ==
    [chat_id |-> u.chat_id, text |-> text, reply_markup |-> markup, ev |-> u.serial]

\* As SendReminder, but a failed send is swallowed and the loop goes on.
SendReminderCaught ==
    /\ lpc = "hm_send"
    /\ \E ok \in BOOLEAN :
       LET tr == Append(trace, Op(update, "send", reminders[idx], ok, <<>>))
       IN  /\ outbox' = IF ok
                        THEN Append(outbox, [chat_id |-> update.chat_id, text |-> reminders[idx],
                                             reply_markup |-> DoneCancelKeyboard,
                                             ev |-> update.serial])
                        ELSE outbox
           /\ IF idx = Len(reminders)
              THEN EndHandling(tr, log, TRUE)
              ELSE /\ idx' = idx + 1
                   /\ trace' = tr
                   /\ UNCHANGED <<lpc, update, user_message, response, reminders, log>>
    /\ UNCHANGED <<update_queue, deleted, delivered>>
    /\ UNCHANGED <<healthVars, calVars, ppc>>

\* Lines 154-169: one turn of the loop; send_message is not in a try.
SendReminder ==
    /\ lpc = "hm_send"
    /\ \E ok \in BOOLEAN :
       LET tr == Append(trace, Op(update, "send", reminders[idx], ok, <<>>))
       IN  IF ok
           THEN /\ outbox' = Append(outbox, Outbound(update, reminders[idx], DoneCancelKeyboard))
                /\ IF idx = Len(reminders)
                   THEN EndHandling(tr, log, TRUE)
                   ELSE /\ idx' = idx + 1
                        /\ trace' = tr
                        /\ UNCHANGED <<lpc, update, user_message, response, reminders, log>>
           ELSE /\ EndHandling(tr, log, FALSE)
                /\ UNCHANGED outbox
    /\ UNCHANGED <<update_queue, deleted, delivered>>
    /\ UNCHANGED <<healthVars, calVars, ppc>>

\* Lines 128-135
StartCommand ==
    /\ lpc = "sc_reply"
    /\ \E ok \in BOOLEAN :
       LET tr == Append(trace, Op(update, "reply", UsageText, ok, <<>>))
       IN  /\ outbox' = IF ok THEN Append(outbox, Outbound(update, UsageText, NoKeyboard))
                              ELSE outbox
           /\ EndHandling(tr, log, ok)
    /\ UNCHANGED <<update_queue, deleted, delivered>>
    /\ UNCHANGED <<healthVars, calVars, ppc>>

\* As ButtonAnswer, but only "done" goes on to the deletion.
ButtonAnswerDoneOnly ==
    /\ lpc = "bc_answer"
    /\ \E ok \in BOOLEAN :
       LET tr == Append(trace, Op(update, "answer", update.message_id, ok, <<>>))
       IN  IF ok /\ update.data = "done"
           THEN /\ trace' = tr
                /\ lpc' = "bc_delete"
                /\ KeepLocals
                /\ UNCHANGED log
           ELSE EndHandling(tr, log, ok)
    /\ UNCHANGED <<update_queue, outbox, deleted, delivered>>
    /\ UNCHANGED <<healthVars, calVars, ppc>>

\* Lines 174-175: the press is acknowledged; query.answer() is not in a try.
ButtonAnswer ==
    /\ lpc = "bc_answer"
    /\ \E ok \in BOOLEAN :
       LET tr == Append(trace, Op(update, "answer", update.message_id, ok, <<>>))
       IN  IF ok
           THEN /\ trace' = tr
                /\ lpc' = "bc_delete"
                /\ KeepLocals
                /\ UNCHANGED log
           ELSE EndHandling(tr, log, FALSE)
    /\ UNCHANGED <<update_queue, outbox, deleted, delivered>>
    /\ UNCHANGED <<healthVars, calVars, ppc>>

\* Lines 177-181: the message that carried the button is deleted.
ButtonDelete ==
    /\ lpc = "bc_delete"
    /\ \E ok \in BOOLEAN :
       LET tr == Append(trace, Op(update, "delete", update.message_id, ok, <<>>))
           lg == IF ok THEN log ELSE Append(log, LogLine(update, ErrDeletingAfterPress))
       IN  /\ ok => update.message_id \notin deleted
           /\ deleted' = IF ok THEN deleted \cup {update.message_id} ELSE deleted
           /\ EndHandling(tr, lg, TRUE)
    /\ UNCHANGED <<update_queue, outbox, delivered>>
    /\ UNCHANGED <<healthVars, calVars, ppc>>

\* Lines 189-198: the route is registered and the site listens on port 8080.
StartHealthServer ==
    /\ health_state = "off"
    /\ health_state' = "serving"
    /\ UNCHANGED <<health_waiting, health_responses, health_during>>
    /\ UNCHANGED <<listenerVars, polishVars, calVars>>

\* A GET /health request reaches the port.
HealthRequest ==
    /\ Len(health_responses) + health_waiting < MaxHealthRequests
    /\ health_waiting' = health_waiting + 1
    /\ UNCHANGED <<health_state, health_responses, health_during>>
    /\ UNCHANGED <<listenerVars, polishVars, calVars>>

\* As HealthResponse, but refusing while the listener handles an update.
HealthResponseByListener ==
    IF lpc = "idle" THEN [status |-> 200, text |-> "OK"]
    ELSE [status |-> 503, text |-> "BUSY"]

\* Lines 184-186
HealthResponse == [status |-> 200, text |-> "OK"]

\* The event loop runs health_check for a waiting request; it cannot while
\* its thread is inside the completion call.
HealthCheck ==
    /\ health_state = "serving"
    /\ health_waiting > 0
    /\ lpc # "hm_wait"
    /\ health_responses' = Append(health_responses, HealthResponse)
    /\ health_during' = Append(health_during, Route(update))
    /\ health_waiting' = health_waiting - 1
    /\ UNCHANGED health_state
    /\ UNCHANGED <<listenerVars, polishVars, calVars>>

Next ==
    \/ StartBot
    \/ StartHealthServer
    \/ DeliverMessage
    \/ DeliverCallback
    \/ Dispatch
    \/ HandleMessageDelete
    \/ CompletionCall
    \/ CompletionReturn
    \/ SendReminder
    \/ StartCommand
    \/ ButtonAnswer
    \/ ButtonDelete
    \/ HealthRequest
    \/ HealthCheck

Spec == Init /\ [][Next]_vars

\* The event loop runs whatever is ready: start-up goes on, the dispatcher
\* takes the next update once idle, and every call on the platform or the
\* completion service returns or raises in the end (the client libraries'
\* default timeouts).  Nothing obliges users or probes to send anything.
ListenerFairness ==
    /\ WF_vars(StartBot)
    /\ WF_vars(Dispatch)
    /\ WF_vars(HandleMessageDelete)
    /\ WF_vars(CompletionCall)
    /\ WF_vars(CompletionReturn)
    /\ WF_vars(SendReminder)
    /\ WF_vars(StartCommand)
    /\ WF_vars(ButtonAnswer)
    /\ WF_vars(ButtonDelete)

SpecLive == Init /\ [][Next]_vars /\ ListenerFairness

(***************************************************************************)
(* Properties of parse_and_polish_message (SpecPolish)                     *)
(***************************************************************************)
\* The user text that strip() would shorten and split('---') would cut.
AwkwardUserText == <<" ", "a", "-", "-", "-", "b", " ">>

\* C1: whenever the completion invocation raises (create() raises, the
\* response has no choices, or the content is null), parse_and_polish_message
\* returns exactly one item and that item is the user text, character for
\* character.
C1_FallbackIsVerbatim ==
    (ppc = "returned" /\ response \in FailedResponses)
        => /\ Len(reminders) = 1
           /\ reminders[1] = user_message

C1_Witness ==
    /\ ppc = "returned"
    /\ response = NullContentResponse
    /\ user_message = AwkwardUserText
    /\ reminders = << AwkwardUserText >>

\* The places of a text where the three characters "---" start.
DashRuns(s) ==
    { p \in 1..Len(s) : p + 2 <= Len(s) /\ s[p] = "-" /\ s[p + 1] = "-" /\ s[p + 2] = "-" }

\* The separators of a text, read left to right without overlap: no two of
\* them overlap, and a "---" is not a separator only if an earlier separator
\* covers part of it.
Separators(s) ==
    CHOOSE P \in SUBSET DashRuns(s) :
        /\ \A p, q \in P : p < q => q >= p + 3
        /\ \A q \in DashRuns(s) \ P : \E p \in P : p < q /\ q < p + 3

\* The segment of s that starts at lo: up to the next separator or the end.
SegmentFrom(s, lo) ==
    LET later == { p \in Separators(s) : p >= lo }
        hi == IF later = {} THEN Len(s)
              ELSE (CHOOSE p \in later : \A q \in later : p <= q) - 1
    IN  [ k \in 1..(hi - lo + 1) |-> s[lo + k - 1] ]

\* A text without the whitespace before its first and after its last
\* non-whitespace character.
Trimmed(s) ==
    LET ns == { i \in 1..Len(s) : s[i] \notin {" ", "\n", "\t", "\r"} }
    IN  IF ns = {} THEN <<>>
        ELSE LET lo == CHOOSE i \in ns : \A j \in ns : i <= j
                 hi == CHOOSE i \in ns : \A j \in ns : i >= j
             IN  [ k \in 1..(hi - lo + 1) |-> s[lo + k - 1] ]

\* Where the segments with something in them start.
NonEmptyStarts(s) ==
    { lo \in {1} \cup { p + 3 : p \in Separators(s) } : Trimmed(SegmentFrom(s, lo)) # <<>> }

NthStart(s, i) ==
    CHOOSE lo \in NonEmptyStarts(s) : Cardinality({ l \in NonEmptyStarts(s) : l < lo }) = i - 1

\* C2: for every text the completion service returns, no returned item is
\* empty or whitespace only, every item is trimmed, and the items are the
\* trimmed non-empty segments of the text between its "---" separators, each
\* once, in the order of the text.
C2_SplitKeepsNonEmptySegmentsInOrder ==
    (ppc = "returned" /\ response \notin FailedResponses)
        => LET c == response.choices[1].content
           IN  /\ \A i \in 1..Len(reminders) :
                     /\ reminders[i] # <<>>
                     /\ \E k \in 1..Len(reminders[i]) : ~IsSpace(reminders[i][k])
                     /\ ~IsSpace(reminders[i][1])
                     /\ ~IsSpace(reminders[i][Len(reminders[i])])
               /\ Len(reminders) = Cardinality(NonEmptyStarts(c))
               /\ \A i \in 1..Len(reminders) :
                     reminders[i] = Trimmed(SegmentFrom(c, NthStart(c, i)))

C2_Witness ==
    /\ ppc = "returned"
    /\ response = ContentResponse(<<" ", "a", "-", "-", "-", "-", "-", "-", "b">>)
    /\ reminders = << <<"a">>, <<"b">> >>

(***************************************************************************)
(* Properties of get_calendar_context (SpecCal)                            *)
(***************************************************************************)
\* The date a formatted date names.
ParseBdY(f) ==
    [year  |-> f.year,
     month |-> CHOOSE m \in 1..12 : MonthNames[m] = f.month,
     day   |-> f.dd[1] * 10 + f.dd[2]]

\* The day after a date, by the lengths of the months.
Feb(y) == IF (y % 400 = 0) \/ (y % 4 = 0 /\ y % 100 # 0) THEN 29 ELSE 28
MonthLengths(y) == << 31, Feb(y), 31, 30, 31, 30, 31, 31, 30, 31, 30, 31 >>
NextDay(d) ==
    IF d.day < MonthLengths(d.year)[d.month]
    THEN [d EXCEPT !.day = d.day + 1]
    ELSE IF d.month < 12
         THEN [year |-> d.year, month |-> d.month + 1, day |-> 1]
         ELSE [year |-> d.year + 1, month |-> 1, day |-> 1]

\* The weekday of a date by Zeller's congruence.
ZellerName(d) ==
    LET m == IF d.month < 3 THEN d.month + 12 ELSE d.month
        y == IF d.month < 3 THEN d.year - 1 ELSE d.year
        K == y % 100
        J == y \div 100
        h == (d.day + ((13 * (m + 1)) \div 5) + K + (K \div 4) + (J \div 4) + 5 * J) % 7
    IN  << "Saturday", "Sunday", "Monday", "Tuesday", "Wednesday", "Thursday", "Friday" >>[h + 1]

\* The day lines of the calendar text, in the order of the text.
DayLines(cal) == cal.weeks[1].days \o cal.weeks[2].days \o cal.weeks[3].days

\* C7: for every clock reading the calendar text has 7 day lines for the
\* previous, 7 for the current and 7 for the next week; the 21 dates are
\* consecutive; each week starts on a Monday; each line's weekday name is the
\* weekday of its date; today's date is one of the current week's lines.
C7_CalendarHas21ConsecutiveDays ==
    (cpc = "built")
        => LET lines == DayLines(calendar_text)
           IN  /\ Len(calendar_text.weeks) = 3
               /\ \A w \in 1..3 : Len(calendar_text.weeks[w].days) = 7
               /\ Len(lines) = 21
               /\ \A i \in 1..20 :
                     ParseBdY(lines[i + 1].date) = NextDay(ParseBdY(lines[i].date))
               /\ \A w \in 1..3 : calendar_text.weeks[w].days[1].name = "Monday"
               /\ \A i \in 1..21 : lines[i].name = ZellerName(ParseBdY(lines[i].date))
               /\ \E i \in 1..7 : ParseBdY(calendar_text.weeks[2].days[i].date) = now
               /\ ParseBdY(calendar_text.current.date) = now
               /\ calendar_text.current.name = ZellerName(now)

\* Sunday, March 3rd 2024: the previous week holds February 29th.
C7_Witness ==
    /\ cpc = "built"
    /\ now = [year |-> 2024, month |-> 3, day |-> 3]
    /\ calendar_text.weeks[2].days[1].date = [month |-> "February", dd |-> <<2, 6>>, year |-> 2024]
    /\ calendar_text.weeks[1].days[1].date = [month |-> "February", dd |-> <<1, 9>>, year |-> 2024]
    /\ calendar_text.weeks[3].days[7].date = [month |-> "March", dd |-> <<1, 0>>, year |-> 2024]

(***************************************************************************)
(* Properties of the running process (Spec)                                *)
(***************************************************************************)
\* What the trace tells about the handling of the update with serial e.
OpsOf(e) == SelectSeq(trace, LAMBDA o : o.ev = e)
OpsNamed(e, name) == SelectSeq(trace, LAMBDA o : o.ev = e /\ o.op = name)
Began(e) == OpsNamed(e, "begin") # <<>>
Ended(e) == OpsNamed(e, "end") # <<>>
HandlerOf(e) == OpsNamed(e, "begin")[1].target
UpdateOf(e) == OpsNamed(e, "begin")[1].items[1]
EndedOk(e) == Ended(e) /\ OpsNamed(e, "end")[1].ok
Completed(e) == OpsNamed(e, "completed") # <<>>
ItemsOf(e) == OpsNamed(e, "completed")[1].items
SentBy(e) == SelectSeq(outbox, LAMBDA m : m.ev = e)
FailedOps(e, name) == SelectSeq(trace, LAMBDA o : o.ev = e /\ o.op = name /\ ~o.ok)

TextHandlings == { e \in 1..delivered : Began(e) /\ HandlerOf(e) = "handle_message" }
ButtonHandlings == { e \in 1..delivered : Began(e) /\ HandlerOf(e) = "button_callback" }
StartHandlings == { e \in 1..delivered : Began(e) /\ HandlerOf(e) = "start_command" }

\* The labels of the buttons of a message, row by row.
ButtonLabels(m) == [ r \in 1..Len(m.reply_markup) |->
                       [ b \in 1..Len(m.reply_markup[r]) |-> m.reply_markup[r][b].text ] ]

\* The k-th message sent for e is the k-th reminder, in the chat the update
\* came from, with the two buttons.
IsKthReminder(e, k) ==
    /\ SentBy(e)[k].text = ItemsOf(e)[k]
    /\ SentBy(e)[k].chat_id = UpdateOf(e).chat_id
    /\ ButtonLabels(SentBy(e)[k]) = << <<"Done", "Cancel">> >>

\* C3 as stated: every text message whose handling is over got exactly N
\* messages, the i-th carrying the i-th reminder, each with Done and Cancel.
C3_AsStated ==
    \A e \in TextHandlings :
        Ended(e) => /\ Completed(e)
                    /\ Len(SentBy(e)) = Len(ItemsOf(e))
                    /\ \A k \in 1..Len(SentBy(e)) : IsKthReminder(e, k)

\* C3: for a text message with N reminders, the messages sent are the first
\* reminders in order (the i-th message carries the i-th reminder, goes to the
\* originating chat and has the two buttons Done and Cancel); there are
\* exactly N of them when the handling ends without a send raising, and
\* exactly those before the failing one when a send raises.
C3_SendsReminderPrefix ==
    \A e \in TextHandlings :
        /\ ~Completed(e) => SentBy(e) = <<>>
        /\ Completed(e) =>
              /\ Len(SentBy(e)) <= Len(ItemsOf(e))
              /\ \A k \in 1..Len(SentBy(e)) : IsKthReminder(e, k)
              /\ Len(SentBy(e)) = Len(OpsNamed(e, "send")) - Len(FailedOps(e, "send"))
              /\ Len(FailedOps(e, "send")) <= 1
              /\ EndedOk(e) => /\ Len(SentBy(e)) = Len(ItemsOf(e))
                               /\ FailedOps(e, "send") = <<>>
              /\ (Ended(e) /\ ~EndedOk(e)) =>
                    /\ Len(FailedOps(e, "send")) = 1
                    /\ Len(SentBy(e)) < Len(ItemsOf(e))
                    /\ FailedOps(e, "send")[1].target = ItemsOf(e)[Len(SentBy(e)) + 1]

C3_Witness ==
    \E e \in TextHandlings :
        /\ EndedOk(e)
        /\ UpdateOf(e).chat_id = 2
        /\ Len(ItemsOf(e)) = 2
        /\ Len(SentBy(e)) = 2
        /\ SentBy(e)[1].text # SentBy(e)[2].text

\* C4 as stated: every press of a button leads to exactly one deletion attempt.
C4_AsStated ==
    \A e \in ButtonHandlings :
        Ended(e) => Len(OpsNamed(e, "delete")) = 1

\* C4: for a press of Done as for a press of Cancel, button_callback attempts
\* the deletion of the message that carried the button exactly once when the
\* acknowledgment succeeded, never more than once, and not at all when the
\* acknowledgment raised.
C4_OneDeletionAfterAcknowledgment ==
    \A e \in ButtonHandlings :
        /\ Len(OpsNamed(e, "delete")) <= 1
        /\ Len(OpsNamed(e, "answer")) <= 1
        /\ \A i \in 1..Len(OpsNamed(e, "delete")) :
               OpsNamed(e, "delete")[i].target = UpdateOf(e).message_id
        /\ Ended(e) =>
              /\ Len(OpsNamed(e, "answer")) = 1
              /\ Len(OpsNamed(e, "delete")) = (IF OpsNamed(e, "answer")[1].ok THEN 1 ELSE 0)

C4_Witness ==
    \E e1, e2 \in ButtonHandlings :
        /\ UpdateOf(e1).data = "done"
        /\ UpdateOf(e2).data = "cancel"
        /\ Ended(e1) /\ Ended(e2)
        /\ Len(OpsNamed(e1, "delete")) = 1
        /\ Len(OpsNamed(e2, "delete")) = 1
        /\ OpsNamed(e1, "delete")[1].target # OpsNamed(e2, "delete")[1].target

\* A failed deletion in a button handler is followed at once by the normal
\* end of the handler, and the listener is idle after every end.
ButtonDeletionFailureEndsNormally ==
    /\ \A i \in 1..Len(trace) :
          (trace[i].op = "delete" /\ ~trace[i].ok /\ HandlerOf(trace[i].ev) = "button_callback")
              => /\ i < Len(trace)
                 /\ trace[i + 1].ev = trace[i].ev
                 /\ trace[i + 1].op = "end"
                 /\ trace[i + 1].ok
    /\ (trace # <<>> /\ trace[Len(trace)].op = "end") => lpc = "idle"

\* After a failed deletion of the original message the completion call comes next.
MessageDeletionFailureGoesOn ==
    \A e \in TextHandlings :
        FailedOps(e, "delete") # <<>> =>
            /\ Len(OpsOf(e)) = 2 => (lpc = "hm_call" /\ update.serial = e)
            /\ Len(OpsOf(e)) >= 3 => OpsOf(e)[3].op = "call"
            /\ Ended(e) => Completed(e)

\* C5 as stated: after a failed deletion of the original message the
\* completion call is made and all N reminders are sent; a failed deletion in
\* button_callback ends the handler normally.
C5_AsStated ==
    /\ MessageDeletionFailureGoesOn
    /\ \A e \in TextHandlings :
          (FailedOps(e, "delete") # <<>> /\ Ended(e)) => Len(SentBy(e)) = Len(ItemsOf(e))
    /\ ButtonDeletionFailureEndsNormally

\* C5: a deletion failure stops nothing.  After a failed deletion of the
\* original message the completion call is still made and the reminders are
\* sent as after a successful deletion: all N of them, unless a send itself
\* raises.  After a failed deletion in button_callback the handler ends
\* normally and the listener is idle again, ready for the next callback.
C5_DeletionFailureStopsNothing ==
    /\ MessageDeletionFailureGoesOn
    /\ \A e \in TextHandlings :
          (FailedOps(e, "delete") # <<>> /\ Ended(e)) =>
              \/ Len(SentBy(e)) = Len(ItemsOf(e))
              \/ FailedOps(e, "send") # <<>>
    /\ ButtonDeletionFailureEndsNormally

\* The original message's deletion failed and both reminders were sent; the
\* deletion after the press on the first failed, the one after the press on
\* the second was made.
C5_Witness ==
    \E e \in TextHandlings : \E b1, b2 \in ButtonHandlings :
        /\ FailedOps(e, "delete") # <<>>
        /\ EndedOk(e) /\ Len(SentBy(e)) = 2
        /\ b1 < b2
        /\ FailedOps(b1, "delete") # <<>>
        /\ EndedOk(b1)
        /\ outbox[UpdateOf(b1).message_id[2]].ev = e
        /\ outbox[UpdateOf(b2).message_id[2]].ev = e
        /\ UpdateOf(b1).message_id # UpdateOf(b2).message_id
        /\ OpsNamed(b2, "delete") # <<>>
        /\ OpsNamed(b2, "delete")[1].ok
        /\ EndedOk(b2)

\* C6: every answer to GET /health is status 200 with body OK, whatever the
\* listener is doing, and answering changes nothing of the listener's state.
C6_HealthAlwaysOK ==
    /\ [](\A i \in 1..Len(health_responses) :
              health_responses[i].status = 200 /\ health_responses[i].text = "OK")
    /\ [][health_responses' # health_responses
              => (/\ health_responses' = Append(health_responses, [status |-> 200, text |-> "OK"])
                  /\ UNCHANGED <<listenerVars, polishVars>>)]_vars

\* A request was answered while a text message was being handled, after the
\* deletion of the original message had failed.
C6_Witness ==
    /\ health_responses # <<>>
    /\ health_during[Len(health_during)] = "handle_message"
    /\ lpc = "hm_call"
    /\ trace[Len(trace)].op = "delete"
    /\ ~trace[Len(trace)].ok
    /\ Len(trace) = 2

\* C8: in the handling of a text message the deletion attempt comes first,
\* then the completion call and its return, then the sends: nothing is sent
\* before the deletion attempt and the completion call are over.
C8_DeleteThenCompleteThenSend ==
    \A e \in TextHandlings :
        LET ops == OpsOf(e)
        IN  /\ Len(ops) >= 2 => ops[2].op = "delete" /\ ops[2].target = UpdateOf(e).message_id
            /\ Len(ops) >= 3 => ops[3].op = "call"
            /\ Len(ops) >= 4 => ops[4].op = "completed"
            /\ \A i \in 1..Len(ops) :
                  /\ i >= 5 => ops[i].op \in {"send", "end"}
                  /\ ops[i].op = "send" => i >= 5
            /\ Len(ops) < 5 => SentBy(e) = <<>>

C8_Witness ==
    \E e \in TextHandlings :
        /\ Len(OpsOf(e)) = 7
        /\ [ i \in 1..7 |-> OpsOf(e)[i].op ]
               = <<"begin", "delete", "call", "completed", "send", "send", "end">>

\* C9: whatever fails, every message the bot sends is the usage text (in
\* answer to the start command) or a reminder of the sequence computed for
\* the text message it answers; none carries the text of an error.
C9_NoErrorTextIsSent ==
    \A k \in 1..Len(outbox) :
        LET m == outbox[k]
        IN  /\ m.text \notin ErrorTexts
            /\ \/ /\ m.text = UsageText
                  /\ m.ev \in StartHandlings
               \/ /\ m.ev \in TextHandlings
                  /\ Completed(m.ev)
                  /\ \E i \in 1..Len(ItemsOf(m.ev)) : ItemsOf(m.ev)[i] = m.text

\* The deletion and the completion call both failed, and the user text went out.
C9_Witness ==
    \E e \in TextHandlings :
        /\ FailedOps(e, "delete") # <<>>
        /\ FailedOps(e, "completed") # <<>>
        /\ Len(SentBy(e)) = 1
        /\ SentBy(e)[1].text = UpdateOf(e).text
        /\ Len(SelectSeq(log, LAMBDA l : l.ev = e)) = 2

\* C10: the updates are handled one at a time in the order of their delivery:
\* a handling begins only after the previous one has ended, every call
\* belongs to the handling begun last, and the messages of two batches do not
\* interleave.
C10_OneUpdateAtATime ==
    /\ \A i \in 1..Len(trace) :
          IF trace[i].op = "begin"
          THEN i > 1 => (trace[i - 1].op = "end" /\ trace[i - 1].ev < trace[i].ev)
          ELSE /\ i > 1
               /\ trace[i - 1].ev = trace[i].ev
               /\ trace[i - 1].op # "end"
    /\ \A i, j \in 1..Len(outbox) : i < j => outbox[i].ev <= outbox[j].ev
    /\ lpc \notin {"boot", "idle"} =>
          /\ trace # <<>>
          /\ trace[Len(trace)].ev = update.serial
          /\ trace[Len(trace)].op # "end"

\* The second update was delivered while the first was handled; both batches went out.
C10_Witness ==
    /\ {1, 2} \subseteq TextHandlings
    /\ EndedOk(1)
    /\ Len(SentBy(1)) = 2
    /\ lpc = "hm_send"
    /\ update.serial = 2
    /\ idx = 2
    /\ Len(SentBy(2)) = 1
    /\ update_queue # <<>>

\* C11: while the handling of a text message waits for the completion service
\* to answer, a GET /health request that has arrived at the running responder
\* can be served before the completion call returns.
C11_HealthServedDuringCompletion ==
    (lpc = "hm_wait" /\ health_state = "serving" /\ health_waiting > 0)
        => ENABLED HealthCheck

\* C12: nothing is retried.  For every text message the completion service
\* is invoked once, and an invocation that fails is followed at once by the
\* send of the raw user text; no event has more than one deletion attempt,
\* whether the attempt succeeded or failed.
C12_NothingIsRetried ==
    /\ \A e \in TextHandlings :
          /\ Len(OpsNamed(e, "call")) <= 1
          /\ Len(OpsNamed(e, "completed")) <= Len(OpsNamed(e, "call"))
          /\ Ended(e) => (Len(OpsNamed(e, "call")) = 1 /\ Len(OpsNamed(e, "completed")) = 1)
          /\ FailedOps(e, "completed") # <<>> =>
                /\ ItemsOf(e) = << UpdateOf(e).text >>
                /\ Len(OpsOf(e)) >= 5 =>
                      (OpsOf(e)[5].op = "send" /\ OpsOf(e)[5].target = UpdateOf(e).text)
    /\ \A e \in 1..delivered : Len(OpsNamed(e, "delete")) <= 1
    /\ \A e \in (1..delivered) \ TextHandlings : OpsNamed(e, "call") = <<>>

\* A text message whose deletion and completion call both failed, and a press
\* whose deletion failed: one attempt each.
C12_Witness ==
    \E e \in TextHandlings : \E b \in ButtonHandlings :
        /\ Ended(e) /\ Ended(b)
        /\ Len(FailedOps(e, "delete")) = 1
        /\ Len(OpsNamed(e, "delete")) = 1
        /\ Len(FailedOps(e, "completed")) = 1
        /\ Len(OpsNamed(e, "call")) = 1
        /\ Len(FailedOps(b, "delete")) = 1
        /\ Len(OpsNamed(b, "delete")) = 1

\* What the start command does besides its reply: nothing.  No command is
\* handled by handle_message.
StartCommandDoesNothingElse ==
    /\ \A e \in StartHandlings :
          /\ UpdateOf(e).command = "start"
          /\ \A i \in 1..Len(OpsOf(e)) : OpsOf(e)[i].op \in {"begin", "reply", "end"}
          /\ Len(OpsNamed(e, "reply")) <= 1
          /\ \A k \in 1..Len(SentBy(e)) :
                /\ SentBy(e)[k].text = UsageText
                /\ SentBy(e)[k].reply_markup = <<>>
                /\ SentBy(e)[k].chat_id = UpdateOf(e).chat_id
    /\ \A e \in TextHandlings : UpdateOf(e).command = ""

\* C13 as stated: the start command produces exactly one outbound message,
\* the usage text, and nothing else.
C13_AsStated ==
    /\ StartCommandDoesNothingElse
    /\ \A e \in StartHandlings : Ended(e) => Len(SentBy(e)) = 1

\* C13: the start command makes one reply call with the static usage text and
\* nothing else (no deletion, no completion call, no message with buttons):
\* exactly one outbound message when the reply succeeds and none when it
\* raises; a command message is never handled by handle_message.
C13_StartRepliesOnce ==
    /\ StartCommandDoesNothingElse
    /\ \A e \in StartHandlings :
          Ended(e) =>
              /\ Len(OpsNamed(e, "reply")) = 1
              /\ OpsNamed(e, "reply")[1].target = << "Welcome to Reminder Bot!" >>
              /\ Len(SentBy(e)) = (IF OpsNamed(e, "reply")[1].ok THEN 1 ELSE 0)
              /\ EndedOk(e) = OpsNamed(e, "reply")[1].ok

\* The first update, a command other than start, was dropped; the second, the
\* start command, was answered in its chat.
C13_Witness ==
    /\ delivered = 2
    /\ ~Began(1)
    /\ 2 \in StartHandlings
    /\ EndedOk(2)
    /\ UpdateOf(2).chat_id = 2
    /\ Len(outbox) = 1
    /\ outbox[1].text = UsageText
    /\ deleted = {}
    /\ lpc = "idle"
    /\ update_queue = <<>>

\* C14: in the handling of a press the acknowledgment comes first and the
\* deletion attempt, if any, right after a successful acknowledgment; the
\* handler sends nothing and does not call the completion service.
C14_AcknowledgeThenDelete ==
    \A e \in ButtonHandlings :
        LET ops == OpsOf(e)
        IN  /\ Len(ops) >= 2 => ops[2].op = "answer"
            /\ \A i \in 1..Len(ops) :
                  /\ ops[i].op \in {"begin", "answer", "delete", "end"}
                  /\ ops[i].op = "delete" => (i = 3 /\ ops[2].op = "answer" /\ ops[2].ok)
                  /\ ops[i].op = "answer" => i = 2
            /\ SentBy(e) = <<>>

C14_Witness ==
    \E e \in ButtonHandlings :
        /\ Len(OpsOf(e)) = 4
        /\ [ i \in 1..4 |-> OpsOf(e)[i].op ] = <<"begin", "answer", "delete", "end">>
        /\ UpdateOf(e).message_id \in deleted

\* C16: the raw user text is returned only when the invocation raises.  When
\* the service answers a text with no non-whitespace segment, the list of
\* reminders is empty and handle_message sends nothing, although the deletion
\* of the original message was attempted first.
C16_EmptyAnswerSendsNothing ==
    \A e \in TextHandlings :
        Completed(e) =>
            LET c == OpsNamed(e, "completed")[1]
            IN  /\ ~c.ok => (c.target = None /\ ItemsOf(e) = << UpdateOf(e).text >>)
                /\ c.ok => /\ c.target # None
                           /\ Len(ItemsOf(e)) = Cardinality(NonEmptyStarts(c.target))
                /\ (c.ok /\ NonEmptyStarts(c.target) = {}) =>
                      /\ ItemsOf(e) = <<>>
                      /\ SentBy(e) = <<>>
                      /\ EndedOk(e)
                      /\ [ i \in 1..Len(OpsOf(e)) |-> OpsOf(e)[i].op ]
                             = <<"begin", "delete", "call", "completed", "end">>
                      /\ OpsOf(e)[2].target = UpdateOf(e).message_id

\* The service answered only a separator between blanks: the original message
\* is gone and nothing was sent.
C16_Witness ==
    \E e \in TextHandlings :
        /\ Completed(e)
        /\ OpsNamed(e, "completed")[1].ok
        /\ OpsNamed(e, "completed")[1].target = <<" ", "-", "-", "-", "\n">>
        /\ EndedOk(e)
        /\ UpdateOf(e).message_id \in deleted
        /\ outbox = <<>>

\* C17: a send that raises ends the handling.  If the send of the i-th of N
\* reminders raises, the reminders before it and only they have been sent,
\* the i-th is not tried again, the later ones are never sent, and the
\* deletion of the original message was attempted before the first send.
C17_SendFailureEndsTheBatch ==
    \A e \in TextHandlings :
        LET ops == OpsOf(e)
        IN  /\ \A p \in 1..Len(ops) :
                  (ops[p].op = "send" /\ ~ops[p].ok) =>
                      LET i == p - 4
                      IN  /\ i >= 1 /\ i <= Len(ItemsOf(e))
                          /\ ops[p].target = ItemsOf(e)[i]
                          /\ Len(ops) = p + 1
                          /\ ops[p + 1].op = "end"
                          /\ ~ops[p + 1].ok
                          /\ Len(OpsNamed(e, "send")) = i
                          /\ Len(SentBy(e)) = i - 1
                          /\ \A k \in 1..(i - 1) : SentBy(e)[k].text = ItemsOf(e)[k]
                          /\ ops[2].op = "delete"
            /\ (Ended(e) /\ ~EndedOk(e)) => FailedOps(e, "send") # <<>>

\* The second of two reminders could not be sent; the listener is idle again.
C17_Witness ==
    \E e \in TextHandlings :
        /\ Completed(e)
        /\ Len(ItemsOf(e)) = 2
        /\ Len(SentBy(e)) = 1
        /\ Len(FailedOps(e, "send")) = 1
        /\ FailedOps(e, "send")[1].target = ItemsOf(e)[2]
        /\ Ended(e)
        /\ lpc = "idle"

(***************************************************************************)
(* Progress of the listener (SpecLive)                                     *)
(***************************************************************************)
\* The update with serial n has been delivered and is over: it waits no more
\* and is not the one being handled.
Handled(n) ==
    /\ delivered >= n
    /\ \A i \in 1..Len(update_queue) : update_queue[i].serial # n
    /\ update.serial # n

\* C15: the listener has no terminal state.  Whenever a handling has ended,
\* whether its handler returned or raised, the listener is idle; and every
\* update delivered is handled in the end.
C15_ListenerNeverStops ==
    /\ []((trace # <<>> /\ trace[Len(trace)].op = "end") => lpc = "idle")
    /\ [](lpc \in {"boot", "idle", "hm_delete", "hm_call", "hm_wait", "hm_send",
                   "sc_reply", "bc_answer", "bc_delete"})
    /\ \A n \in 1..MaxUpdates : (delivered >= n) ~> Handled(n)

\* A text message whose deletion and completion call failed, then a press
\* whose acknowledgment raised, then the start command: all three handled.
C15_Witness ==
    /\ 1 \in TextHandlings /\ 2 \in ButtonHandlings /\ 3 \in StartHandlings
    /\ FailedOps(1, "delete") # <<>>
    /\ FailedOps(1, "completed") # <<>>
    /\ FailedOps(2, "answer") # <<>>
    /\ Ended(2) /\ ~EndedOk(2)
    /\ EndedOk(3)
    /\ Handled(1) /\ Handled(2) /\ Handled(3)
    /\ lpc = "idle"

=============================================================================
